---- MODULE Spec2Model ----
(***************************************************************************)
(* A model of go-sort (src/go-sort.go): the reordering engine that         *)
(* sortActionByFilename runs on one Go file, the directory walk of         *)
(* getDirGoFiles and the batch loop of sortFile.                           *)
(*                                                                         *)
(* An identifier is the sequence of its bytes, so that isExportedName,     *)
(* strings.ToLower and Go's string comparison are computed as the code     *)
(* computes them.  A source file is what go/parser makes of it: the        *)
(* comments before the package clause and, after the clause, the sequence  *)
(* of top-level declarations and comment groups in source order, each      *)
(* comment group with the two layout facts the code reads through token    *)
(* positions (whether it sits on the line of the token before it, and      *)
(* whether its End()+1 is the Pos() of the declaration after it).          *)
(* The output buffer is the sequence of slices of the source written to    *)
(* it.                                                                     *)
(***************************************************************************)
EXTENDS Integers, Sequences, FiniteSets, TLC

VARIABLES
    disk,      \* the file's content on disk
    pc,        \* where sortActionByFilename is
    write,     \* the write argument of the running call
    f,         \* f, the parsed *ast.File of the running call
    buf,       \* buf, as assembled by writePkg and write2buf before format.Source
    out,       \* the bytes format.Source returned
    ret,       \* (changed, err) the last call returned, when none is running
    calls,     \* how many calls were made
    produced,  \* whether disk holds what a call in write mode produced
    fs,        \* batch: the directory tree walked
    cfg,       \* batch: the config sortFile runs with
    files,     \* batch: the list getDirGoFiles returned
    idx,       \* batch: how many files of the list were handed to sortActionByFilename
    done,      \* batch: the files sortActionByFilename ended on, in order
    batchErr   \* batch: the file named in the error sortFile returned (<<>>: nil)

vars == <<disk, pc, write, f, buf, out, ret, calls, produced,
          fs, cfg, files, idx, done, batchErr>>
engineVars == <<disk, pc, write, f, buf, out, ret, calls, produced>>
batchVars == <<fs, cfg, files, idx, done, batchErr>>

----------------------------------------------------------------------------
(* Bounds *)

MaxDecls == 3
MaxItems == 3
MaxCalls == 2
MaxFiles == 3

----------------------------------------------------------------------------
(* Identifiers *)

UpperA == 65
UpperZ == 90
LowerOffset == 32

NameMain == <<109, 97, 105, 110>>
NameInit == <<105, 110, 105, 116>>
NoName == <<>>

\* the comparison of Go strings: bytewise lexicographic
StrLess(a, b) ==
    \E k \in 1..(Len(b)) :
        /\ \A j \in 1..(k - 1) : j <= Len(a) /\ a[j] = b[j]
        /\ \/ k = Len(a) + 1
           \/ k <= Len(a) /\ a[k] < b[k]

ToLower(a) ==
    [j \in 1..Len(a) |->
        IF UpperA <= a[j] /\ a[j] <= UpperZ THEN a[j] + LowerOffset ELSE a[j]]

isExportedName(name) ==
    IF name = NoName THEN FALSE
    ELSE UpperA <= name[1] /\ name[1] <= UpperZ

LessNoCaseFold(a, b) ==
    LET ai == isExportedName(a)
        bi == isExportedName(b)
    IN  IF ai # bi THEN ai ELSE StrLess(a, b)

\* letterDeclList.Less on the two Letters
Less(a, b) ==
    LET ai == isExportedName(a)
        bi == isExportedName(b)
        al == ToLower(a)
        bl == ToLower(b)
    IN  IF ai # bi THEN ai
        ELSE IF al # bl THEN StrLess(al, bl)
        ELSE StrLess(a, b)

\* sort.Stable on a letterDeclList: x, the last element, goes behind every
\* element it is not Less than
RECURSIVE InsertStable(_, _)
InsertStable(x, s) ==
    IF s = <<>> THEN <<x>>
    ELSE LET last == s[Len(s)]
             init == SubSeq(s, 1, Len(s) - 1)
         IN  IF Less(x.Letter, last.Letter)
             THEN Append(InsertStable(x, init), last)
             ELSE Append(s, x)

RECURSIVE SortStable(_)
SortStable(list) ==
    IF list = <<>> THEN <<>>
    ELSE InsertStable(list[Len(list)], SortStable(SubSeq(list, 1, Len(list) - 1)))

----------------------------------------------------------------------------
(* The parsed file *)

NoRecv == [e |-> "nil"]
Ident(n) == [e |-> "Ident", name |-> n]
Star(x) == [e |-> "Star", x |-> x]
Index(x) == [e |-> "Index", x |-> x]
IndexList(x) == [e |-> "IndexList", x |-> x]

\* a top-level declaration: its token, the names of its specs (of a FuncDecl:
\* its name), its receiver type and the comment groups inside its span
Decl(tok, names, recv, inner) ==
    [k |-> "decl", tok |-> tok, names |-> names, recv |-> recv, inner |-> inner,
     txt |-> <<>>, trail |-> FALSE, gap |-> "far"]

\* a comment group outside every declaration's span: the texts of its lines,
\* whether it starts on the line of the token before it, and whether its
\* End()+1 is the Pos() of the declaration after it ("adj") or not ("far")
Cmt(txt, trail, gap) ==
    [k |-> "cmt", tok |-> "", names |-> <<>>, recv |-> NoRecv, inner |-> <<>>,
     txt |-> txt, trail |-> trail, gap |-> gap]

\* a file: whether go/parser accepts it, the comment groups before the package
\* clause, and what follows the clause
File(ok, pre, items) == [ok |-> ok, pre |-> pre, items |-> items]
BadFile == File(FALSE, <<>>, <<>>)
NoFile == File(FALSE, <<>>, <<>>)

RECURSIVE SortedSeq(_)
SortedSeq(S) ==
    IF S = {} THEN <<>>
    ELSE LET m == CHOOSE x \in S : \A y \in S : x <= y
         IN  <<m>> \o SortedSeq(S \ {m})

IsDecl(g, i) == g.items[i].k = "decl"
IsCmt(g, i) == g.items[i].k = "cmt"
IsGenDecl(g, i) == IsDecl(g, i) /\ g.items[i].tok # "func"
IsFuncDecl(g, i) == IsDecl(g, i) /\ g.items[i].tok = "func"

\* f.Decls, as positions, in source order
Decls(g) == SortedSeq({i \in 1..Len(g.items) : IsDecl(g, i)})

\* _decl.Doc: the comment group that ends on the line before the declaration
\* and does not start on the line of the token before it (0: nil)
DocOf(g, i) ==
    IF i > 1 /\ IsCmt(g, i - 1) /\ ~g.items[i - 1].trail /\ g.items[i - 1].gap = "adj"
    THEN i - 1 ELSE 0

\* the comment on the line of the package clause, behind it (0: none)
PkgLineComment(g) ==
    IF Len(g.items) >= 1 /\ IsCmt(g, 1) /\ g.items[1].trail THEN 1 ELSE 0

typeNameFromExpr(expr) ==
    CASE expr.e = "Ident" -> expr.name
      [] expr.e = "Index" -> IF expr.x.e = "Ident" THEN expr.x.name ELSE NoName
      [] expr.e = "IndexList" -> IF expr.x.e = "Ident" THEN expr.x.name ELSE NoName
      [] OTHER -> NoName

getFuncReceiverTypeNameKeepStar(decl) ==
    IF decl.tok # "func" THEN NoName
    ELSE IF decl.recv.e = "nil" THEN NoName
    ELSE typeNameFromExpr(decl.recv)

getFuncReceiverTypeName(decl) ==
    IF decl.tok # "func" THEN NoName
    ELSE IF decl.recv.e = "nil" THEN NoName
    ELSE IF decl.recv.e = "Star" THEN typeNameFromExpr(decl.recv.x)
    ELSE typeNameFromExpr(decl.recv)

\* getTypeFromFile(f, name) != nil
getTypeFromFile(g, name) ==
    /\ name # NoName
    /\ \E i \in 1..Len(g.items) :
          /\ IsDecl(g, i)
          /\ g.items[i].tok = "type"
          /\ \E s \in 1..Len(g.items[i].names) : g.items[i].names[s] = name

isBeforePackageComment(g, c) == c.at = "pre"

isDeclComment(g, c) == c.at = "top" /\ g.items[c.i].gap = "adj"

isStatementComment(g, c) == c.at = "inner"

\* f.Comments in source order: where each group is
Comments(g) ==
    LET RECURSIVE From(_)
        From(i) ==
            IF i > Len(g.items) THEN <<>>
            ELSE (IF IsCmt(g, i) THEN <<[at |-> "top", i |-> i, n |-> 0]>>
                  ELSE [n \in 1..Len(g.items[i].inner) |->
                            [at |-> "inner", i |-> i, n |-> n]])
                 \o From(i + 1)
    IN  [n \in 1..Len(g.pre) |-> [at |-> "pre", i |-> 0, n |-> n]] \o From(1)

----------------------------------------------------------------------------
(* The buffer: the slices of the source written to it *)

\* content[:idx] of writePkg: the lines up to and with the package clause's
Hdr == [p |-> "hdr", i |-> 0, doc |-> 0, nl |-> TRUE]
\* content[posStart:_decl.End()] of declaration i, from its Doc when it has
\* one, and the "\n" behind it when writeLine
DeclPiece(g, i, writeLine) == [p |-> "decl", i |-> i, doc |-> DocOf(g, i), nl |-> writeLine]
\* content[commentGroup.Pos()-1 : commentGroup.End()] and "\n"
CmtPiece(i) == [p |-> "cmt", i |-> i, doc |-> 0, nl |-> TRUE]
\* buf.WriteString("\n") of write2buf
NlPiece == [p |-> "nl", i |-> 0, doc |-> 0, nl |-> TRUE]

writePkg(g) == <<Hdr>>

write2bufAsDecl(g, i, writeLine) == <<DeclPiece(g, i, writeLine)>>

write2bufAsFunc(g, i, writeLine) == <<DeclPiece(g, i, writeLine)>>

\* for _, node := range list { ... }: what the turns of a loop append
RECURSIVE Flatten(_)
Flatten(ss) ==
    IF ss = <<>> THEN <<>> ELSE Head(ss) \o Flatten(Tail(ss))

\* the letterDeclList of the declarations at the positions S, in source order
LetterList(g, S) ==
    LET at == SortedSeq(S)
    IN  [n \in 1..Len(at) |-> [Letter |-> g.items[at[n]].names[1], Decl |-> at[n]]]

write2bufTop(g) ==
    LET at == SortedSeq({i \in 1..Len(g.items) :
                            IsGenDecl(g, i) /\ g.items[i].tok = "import"})
        list == [n \in 1..Len(at) |-> [Letter |-> "import", Decl |-> at[n]]]
        W(i) == write2bufAsDecl(g, i, TRUE)
    IN  Flatten([n \in 1..Len(list) |-> W(list[n].Decl)])

write2bufTopComment(g) ==
    LET cs == Comments(g)
        keep == {n \in 1..Len(cs) :
                    /\ ~isDeclComment(g, cs[n])
                    /\ ~isStatementComment(g, cs[n])
                    /\ ~isBeforePackageComment(g, cs[n])}
        at == SortedSeq(keep)
    IN  [n \in 1..Len(at) |-> CmtPiece(cs[at[n]].i)]

IsEntryName(name) == name = NameMain \/ name = NameInit

writeMain(g) ==
    LET P(i) == /\ IsFuncDecl(g, i)
                /\ g.items[i].recv.e = "nil"
                /\ IsEntryName(g.items[i].names[1])
        at == SortedSeq({i \in 1..Len(g.items) : P(i)})
        list == [n \in 1..Len(at) |-> [Letter |-> "", Decl |-> at[n]]]
        W(i) == write2bufAsFunc(g, i, TRUE)
    IN  Flatten([n \in 1..Len(list) |-> W(list[n].Decl)])

writeTypesReceiverFunc(g, name, writeLine) ==
    LET P(i) == /\ IsFuncDecl(g, i)
                /\ g.items[i].recv.e # "nil"
                /\ getFuncReceiverTypeName(g.items[i]) = name
        W(i) == write2bufAsFunc(g, i, writeLine)
        list == SortStable(LetterList(g, {i \in 1..Len(g.items) : P(i)}))
    IN  Flatten([n \in 1..Len(list) |-> W(list[n].Decl)])

\* the methods of the specs of type declaration i, spec by spec
RECURSIVE WriteSpecsFuncs(_, _, _, _)
WriteSpecsFuncs(g, i, s, writeLine) ==
    IF s > Len(g.items[i].names) THEN <<>>
    ELSE writeTypesReceiverFunc(g, g.items[i].names[s], writeLine)
         \o WriteSpecsFuncs(g, i, s + 1, writeLine)

write2bufGenDecl(g, tk, writeLine) ==
    LET P(i) == /\ IsGenDecl(g, i)
                /\ g.items[i].tok = tk
                /\ g.items[i].tok # "import"
                /\ Len(g.items[i].names) # 0
        W(i) == write2bufAsDecl(g, i, writeLine)
                \o (IF g.items[i].tok = "type"
                    THEN WriteSpecsFuncs(g, i, 1, writeLine) ELSE <<>>)
        list == SortStable(LetterList(g, {i \in 1..Len(g.items) : P(i)}))
    IN  Flatten([n \in 1..Len(list) |-> W(list[n].Decl)])

write2bufFuncKeepEntry(g, writeLine) ==
    LET P(i) == /\ IsFuncDecl(g, i)
                /\ ~(/\ g.items[i].recv.e # "nil"
                     /\ getTypeFromFile(g, getFuncReceiverTypeName(g.items[i])))
        W(i) == write2bufAsFunc(g, i, writeLine)
        list == SortStable(LetterList(g, {i \in 1..Len(g.items) : P(i)}))
    IN  Flatten([n \in 1..Len(list) |-> W(list[n].Decl)])

write2bufFunc(g, writeLine) ==
    LET P(i) == /\ IsFuncDecl(g, i)
                /\ ~IsEntryName(g.items[i].names[1])
                /\ ~(/\ g.items[i].recv.e # "nil"
                     /\ getTypeFromFile(g, getFuncReceiverTypeName(g.items[i])))
        W(i) == write2bufAsFunc(g, i, writeLine)
        list == SortStable(LetterList(g, {i \in 1..Len(g.items) : P(i)}))
    IN  Flatten([n \in 1..Len(list) |-> W(list[n].Decl)])

\* write2buf up to format.Source: what it appends to the buffer
Assemble(g) ==
    write2bufTop(g)
    \o write2bufTopComment(g)
    \o writeMain(g)
    \o write2bufGenDecl(g, "const", FALSE)
    \o <<NlPiece>>
    \o write2bufGenDecl(g, "var", FALSE)
    \o <<NlPiece>>
    \o write2bufGenDecl(g, "type", TRUE)
    \o write2bufFunc(g, TRUE)

----------------------------------------------------------------------------
(* format.Source, and what go/parser makes of its result                   *)
(*                                                                         *)
(* The buffer is read piece by piece.  A declaration written without its   *)
(* "\n" and followed by a declaration slice that starts at its keyword     *)
(* ("const A = 1const B = 2") does not parse.  When that slice starts at   *)
(* its Doc, the Doc's first line lands on the line of the declaration      *)
(* before it.  A comment slice and the comment group written right behind  *)
(* it are lines of one group; a comment group with a declaration's keyword *)
(* on the next line is adjacent to that declaration; a "\n" written at the *)
(* start of a line is a blank line.  gofmt keeps each of these relations.  *)
(***************************************************************************)

SetLast(items, it) == [items EXCEPT ![Len(items)] = it]

\* st: ok, the items so far, whether the last item is a comment group that the
\* next slice continues ("cmt") or may be adjacent to ("cmt", "trail"), and
\* whether the last declaration still lacks its line end
FormatStep(g, st, piece) ==
    LET last == st.items[Len(st.items)]
    IN
    CASE piece.p = "hdr" ->
            IF PkgLineComment(g) # 0
            THEN [st EXCEPT !.items = <<Cmt(g.items[1].txt, TRUE, "far")>>,
                            !.open = "trail", !.fused = FALSE]
            ELSE [st EXCEPT !.items = <<>>, !.open = "none", !.fused = FALSE]
      [] piece.p = "cmt" ->
            LET t == g.items[piece.i].txt
            IN  IF st.open = "cmt"
                THEN [st EXCEPT !.items = SetLast(st.items, Cmt(last.txt \o t, FALSE, "far"))]
                ELSE [st EXCEPT !.items = Append(st.items, Cmt(t, FALSE, "far")),
                                !.open = "cmt"]
      [] piece.p = "nl" ->
            IF st.fused THEN [st EXCEPT !.fused = FALSE]
            ELSE [st EXCEPT !.open = "none"]
      [] piece.p = "decl" ->
            LET d == g.items[piece.i]
                t == g.items[piece.doc].txt
                next == [st EXCEPT !.open = "none", !.fused = ~piece.nl]
            IN  IF st.fused
                THEN IF piece.doc = 0 THEN [st EXCEPT !.ok = FALSE]
                     ELSE [next EXCEPT !.items =
                              st.items
                              \o <<Cmt(<<t[1]>>, TRUE, IF Len(t) = 1 THEN "adj" ELSE "far")>>
                              \o (IF Len(t) > 1 THEN <<Cmt(Tail(t), FALSE, "adj")>> ELSE <<>>)
                              \o <<d>>]
                ELSE IF piece.doc = 0
                THEN [next EXCEPT !.items =
                         (IF st.open = "none" THEN st.items
                          ELSE SetLast(st.items, [last EXCEPT !.gap = "adj"]))
                         \o <<d>>]
                ELSE [next EXCEPT !.items =
                         (IF st.open = "cmt"
                          THEN SetLast(st.items, Cmt(last.txt \o t, FALSE, "adj"))
                          ELSE Append(st.items, Cmt(t, FALSE, "adj")))
                         \o <<d>>]

RECURSIVE FormatFrom(_, _, _, _)
FormatFrom(g, b, n, st) ==
    IF n > Len(b) \/ ~st.ok THEN st
    ELSE FormatFrom(g, b, n + 1, FormatStep(g, st, b[n]))

\* the bytes of the buffer as they are, for a caller that goes on after an error
formatSourceErrorIgnored(g, b) ==
    LET st == FormatFrom(g, b, 1,
                         [ok |-> TRUE, items |-> <<>>, open |-> "none", fused |-> FALSE])
    IN  IF st.ok THEN [err |-> "none", file |-> File(TRUE, g.pre, st.items)]
        ELSE [err |-> "none", file |-> BadFile]

\* ret, err := format.Source(buf.Bytes()): err, and ret as a file
formatSource(g, b) ==
    LET st == FormatFrom(g, b, 1,
                         [ok |-> TRUE, items |-> <<>>, open |-> "none", fused |-> FALSE])
    IN  IF st.ok THEN [err |-> "none", file |-> File(TRUE, g.pre, st.items)]
        ELSE [err |-> "format", file |-> BadFile]

----------------------------------------------------------------------------
(* Input files *)

nA == <<65>>
nB == <<66>>
nZ == <<90>>
na == <<97>>
nb == <<98>>
naB == <<97, 66>>
naa == <<97, 97>>

SeqsUpTo(S, n) == UNION {[1..k -> S] : k \in 0..n}

\* declarations without comments: every kind, blocks of zero, one and two
\* specs, entry points, and methods by receiver shape (*A[int], b, **A)
DeclPalette ==
    {Decl("import", <<>>, NoRecv, <<>>),
     Decl("const", <<nB>>, NoRecv, <<>>),
     Decl("const", <<>>, NoRecv, <<>>),
     Decl("var", <<nb>>, NoRecv, <<>>),
     Decl("type", <<nA>>, NoRecv, <<>>),
     Decl("type", <<nb, nA>>, NoRecv, <<>>)}
    \cup {Decl("func", <<n>>, NoRecv, <<>>) : n \in {NameMain, NameInit, naB, naa, nB}}
    \cup {Decl("func", <<n>>, Star(Index(Ident(nA))), <<>>) : n \in {nZ, na, NameMain}}
    \cup {Decl("func", <<nZ>>, Ident(nb), <<>>),
          Decl("func", <<na>>, Star(Star(Ident(nA))), <<>>)}

DeclFiles == {File(TRUE, <<>>, s) : s \in SeqsUpTo(DeclPalette, MaxDecls)}

\* declarations among comment groups of every layout
ItemPalette ==
    {Decl("import", <<>>, NoRecv, <<>>),
     Decl("const", <<nB>>, NoRecv, <<>>),
     Decl("const", <<na>>, NoRecv, <<>>),
     Decl("func", <<NameMain>>, NoRecv, <<>>),
     Decl("func", <<naa>>, NoRecv, <<<<3>>>>)}
    \cup {Cmt(<<1>>, t, g) : t \in BOOLEAN, g \in {"adj", "far"}}
    \cup {Cmt(<<2>>, FALSE, "far")}

\* the layouts a file can have: a comment group adjacent to a declaration is
\* followed by it, and one on the line of the token before it follows a
\* declaration or the package clause
WellFormed(items) ==
    \A i \in 1..Len(items) :
        items[i].k = "cmt" =>
            /\ items[i].gap = "adj" => i < Len(items) /\ items[i + 1].k = "decl"
            /\ items[i].trail => i = 1 \/ items[i - 1].k = "decl"

CommentFiles ==
    {File(TRUE, pre, s) :
        pre \in {<<>>, << <<7>> >>},
        s \in {x \in SeqsUpTo(ItemPalette, MaxItems) : WellFormed(x)}}

----------------------------------------------------------------------------
(* sortActionByFilename *)

NoRet == [changed |-> FALSE, err |-> "none"]

BatchIdle ==
    /\ fs = <<>>
    /\ cfg = [includeTests |-> FALSE, recursive |-> FALSE, write |-> FALSE]
    /\ files = <<>>
    /\ idx = 0
    /\ done = <<>>
    /\ batchErr = <<>>

Init ==
    /\ disk \in DeclFiles \cup CommentFiles \cup {BadFile}
    /\ pc = "idle"
    /\ write = FALSE
    /\ f = NoFile
    /\ buf = <<>>
    /\ out = NoFile
    /\ ret = NoRet
    /\ calls = 0
    /\ produced = FALSE
    /\ BatchIdle

\* return changed, err
Return(changed, err) ==
    /\ pc' = "idle"
    /\ ret' = [changed |-> changed, err |-> err]
    /\ f' = NoFile
    /\ buf' = <<>>
    /\ out' = NoFile

\* sortActionByFilename(filename, w) is called
Call(w) ==
    /\ pc = "idle"
    /\ calls < MaxCalls
    /\ calls' = calls + 1
    /\ write' = w
    /\ pc' = "ParseFile"
    /\ ret' = NoRet
    /\ UNCHANGED <<disk, f, buf, out, produced>>

\* f, err := parser.ParseFile(...); if err != nil { return false, err }
ParseFile ==
    /\ pc = "ParseFile"
    /\ IF disk.ok
       THEN /\ f' = disk
            /\ pc' = "ReadFile"
            /\ UNCHANGED ret
            /\ UNCHANGED <<buf, out>>
       ELSE Return(FALSE, "parse")
    /\ UNCHANGED <<disk, write, calls, produced>>

\* content, err := os.ReadFile(filename); if err != nil { return false, err }
ReadFile(ioerr) ==
    /\ pc = "ReadFile"
    /\ IF ioerr
       THEN Return(FALSE, "io")
       ELSE /\ pc' = "writePkg"
            /\ UNCHANGED <<f, buf, out, ret>>
    /\ UNCHANGED <<disk, write, calls, produced>>

\* writePkg(buf, fSet, f, content)
WritePkg ==
    /\ pc = "writePkg"
    /\ buf' = buf \o writePkg(f)
    /\ pc' = "write2buf"
    /\ UNCHANGED <<disk, write, f, out, ret, calls, produced>>

\* write2buf, up to format.Source
Write2buf ==
    /\ pc = "write2buf"
    /\ buf' = buf \o Assemble(f)
    /\ pc' = "format"
    /\ UNCHANGED <<disk, write, f, out, ret, calls, produced>>

\* write2buf, from format.Source: if err != nil { return }, and back in
\* sortActionByFilename: if err = write2buf(...); err != nil { return false, err }
FormatSource ==
    /\ pc = "format"
    /\ LET r == formatSource(f, buf)
       IN  IF r.err # "none"
           THEN Return(FALSE, r.err)
           ELSE /\ out' = r.file
                /\ pc' = "WriteFile"
                /\ UNCHANGED <<f, buf, ret>>
    /\ UNCHANGED <<disk, write, calls, produced>>

\* changed = !bytes.Equal(content, out); if write { os.WriteFile(...) };
\* return changed, nil.  A failing os.WriteFile leaves the file as it was or
\* truncated
WriteFile(wok, left) ==
    /\ pc = "WriteFile"
    /\ IF write
       THEN IF wok
            THEN /\ disk' = out
                 /\ produced' = TRUE
                 /\ Return(out # disk, "none")
            ELSE /\ disk' = left
                 /\ produced' = (produced /\ left = disk)
                 /\ Return(FALSE, "io")
       ELSE /\ Return(out # disk, "none")
            /\ UNCHANGED <<disk, produced>>
    /\ UNCHANGED <<write, calls>>

Next ==
    \/ \E w \in BOOLEAN : Call(w) /\ UNCHANGED batchVars
    \/ ParseFile /\ UNCHANGED batchVars
    \/ \E ioerr \in BOOLEAN : ReadFile(ioerr) /\ UNCHANGED batchVars
    \/ WritePkg /\ UNCHANGED batchVars
    \/ Write2buf /\ UNCHANGED batchVars
    \/ FormatSource /\ UNCHANGED batchVars
    \/ \E wok \in BOOLEAN : \E left \in {disk, BadFile} :
          WriteFile(wok, left) /\ UNCHANGED batchVars

Spec == Init /\ [][Next]_vars

----------------------------------------------------------------------------
(* getDirGoFiles and sortFile *)

\* sortActionByFilename as one step, when no read or write fails:
\* (changed, err) and the file's content after it
sortActionByFilename(content, w) ==
    IF ~content.ok THEN [changed |-> FALSE, err |-> "parse", disk |-> content]
    ELSE LET r == formatSource(content, writePkg(content) \o Assemble(content))
         IN  IF r.err # "none"
             THEN [changed |-> FALSE, err |-> r.err, disk |-> content]
             ELSE [changed |-> r.file # content, err |-> "none",
                   disk |-> IF w THEN r.file ELSE content]

\* for _, arg := range args: the switch on each bool
RECURSIVE ParseArgs(_, _)
ParseArgs(args, st) ==
    IF args = <<>> THEN st
    ELSE ParseArgs(Tail(args),
                   IF ~st.useTest THEN [st EXCEPT !.useTest = Head(args)]
                   ELSE [st EXCEPT !.recursive = Head(args)])

HasSuffixGo(e) == e.name \in {"go", "test"}
HasSuffixTestGo(e) == e.name = "test"

\* walkFn on a file: whether it is appended to files
WalkFile(e, useTest) ==
    /\ HasSuffixGo(e)
    /\ ~(~useTest /\ HasSuffixTestGo(e))

\* walkFn over the tree below dir, in filepath.Walk's order
WalkTree(tree, useTest, recursive) ==
    LET InDir(i) ==
            LET at == SortedSeq({j \in 1..Len(tree[i].kids) :
                                    WalkFile(tree[i].kids[j], useTest)})
            IN  [n \in 1..Len(at) |-> <<i, at[n]>>]
        At(i) ==
            IF tree[i].dir
            THEN IF tree[i].name \in {".git", "vendor"} THEN <<>>
                 ELSE IF ~recursive THEN <<>>
                 ELSE InDir(i)
            ELSE IF WalkFile(tree[i], useTest) THEN << <<i>> >> ELSE <<>>
    IN  Flatten([i \in 1..Len(tree) |-> At(i)])

getDirGoFiles(tree, args) ==
    LET st == ParseArgs(args, [useTest |-> FALSE, recursive |-> TRUE])
    IN  WalkTree(tree, st.useTest, st.recursive)

\* the file at a path of the tree, and the tree with that file replaced
FileAt(tree, path) ==
    IF Len(path) = 1 THEN tree[path[1]] ELSE tree[path[1]].kids[path[2]]

WithFile(tree, path, e) ==
    IF Len(path) = 1 THEN [tree EXCEPT ![path[1]] = e]
    ELSE [tree EXCEPT ![path[1]].kids[path[2]] = e]

\* the loop of sortFile goes on after this result
sortFileGoesOnAlways(r) == TRUE

sortFileGoesOn(r) == r.err = "none"

FileEntry(name, content) ==
    [dir |-> FALSE, name |-> name, content |-> content, written |-> FALSE, kids |-> <<>>]
DirEntry(name, kids) ==
    [dir |-> TRUE, name |-> name, content |-> NoFile, written |-> FALSE, kids |-> kids]

\* a file that sorting changes, and one whose assembled output does not parse
UnsortedFile ==
    File(TRUE, <<>>, <<Decl("func", <<naa>>, NoRecv, <<>>), Decl("func", <<nB>>, NoRecv, <<>>)>>)
FusedFile ==
    File(TRUE, <<>>, <<Decl("const", <<nB>>, NoRecv, <<>>), Decl("const", <<na>>, NoRecv, <<>>)>>)

FilePalette ==
    {FileEntry("go", c) : c \in {UnsortedFile, FusedFile, BadFile}}
    \cup {FileEntry("test", UnsortedFile), FileEntry("other", NoFile)}

DirPalette ==
    {DirEntry(n, k) : n \in {".git", "vendor", "sub"},
                      k \in {<<FileEntry("go", UnsortedFile)>>,
                             <<FileEntry("test", UnsortedFile)>>}}

InitBatch ==
    /\ fs \in SeqsUpTo(FilePalette \cup DirPalette, MaxFiles)
    /\ cfg \in [includeTests : BOOLEAN, recursive : BOOLEAN, write : BOOLEAN]
    /\ files = <<>>
    /\ idx = 0
    /\ done = <<>>
    /\ batchErr = <<>>
    /\ pc = "sortFile"
    /\ disk = NoFile
    /\ write = FALSE
    /\ f = NoFile
    /\ buf = <<>>
    /\ out = NoFile
    /\ ret = NoRet
    /\ calls = 0
    /\ produced = FALSE

\* getDirGoFiles(loadFile(cfg), cfg.includeTests, cfg.recursive)
GetDirGoFiles ==
    /\ pc = "sortFile"
    /\ files' = getDirGoFiles(fs, <<cfg.includeTests, cfg.recursive>>)
    /\ pc' = "range"
    /\ UNCHANGED <<fs, cfg, idx, done, batchErr>>

\* one turn of the loop: sortActionByFilename(file, cfg.write), and the return
\* of the wrapped error when it failed
SortOne ==
    /\ pc = "range"
    /\ idx < Len(files)
    /\ LET file == files[idx + 1]
           e == FileAt(fs, file)
           r == sortActionByFilename(e.content, cfg.write)
       IN  /\ fs' = WithFile(fs, file,
                       [e EXCEPT !.content = r.disk,
                                 !.written = e.written \/ (cfg.write /\ r.err = "none")])
           /\ done' = Append(done, [file |-> file, err |-> r.err])
           /\ idx' = idx + 1
           /\ IF sortFileGoesOn(r)
              THEN UNCHANGED <<pc, batchErr>>
              ELSE /\ pc' = "returned"
                   /\ batchErr' = file
    /\ UNCHANGED <<cfg, files>>

\* the loop is over: return nil
ReturnNil ==
    /\ pc = "range"
    /\ idx = Len(files)
    /\ pc' = "returned"
    /\ UNCHANGED <<fs, cfg, files, idx, done, batchErr>>

NextBatch ==
    \/ GetDirGoFiles /\ UNCHANGED <<disk, write, f, buf, out, ret, calls, produced>>
    \/ SortOne /\ UNCHANGED <<disk, write, f, buf, out, ret, calls, produced>>
    \/ ReturnNil /\ UNCHANGED <<disk, write, f, buf, out, ret, calls, produced>>

SpecBatch == InitBatch /\ [][NextBatch]_vars

----------------------------------------------------------------------------
(* What the claims speak of: the assembled buffer of a call *)

\* write2buf has assembled buf from f and format.Source has not run yet
Assembled == pc = "format"

Range(q) == {q[n] : n \in 1..Len(q)}

IsDeclPiece(n) == buf[n].p = "decl"
ItemAt(n) == f.items[buf[n].i]
LetterAt(n) == ItemAt(n).names[1]

\* where declaration i of the file is written in the buffer
PosOf(i) == {n \in 1..Len(buf) : IsDeclPiece(n) /\ buf[n].i = i}

\* the two "\n" write2buf writes behind the constants and behind the variables
NlPos == SortedSeq({n \in 1..Len(buf) : buf[n].p = "nl"})

IsMethodItem(d) == d.k = "decl" /\ d.tok = "func" /\ d.recv.e # "nil"
IsEntryItem(d) ==
    d.k = "decl" /\ d.tok = "func" /\ d.recv.e = "nil" /\ d.names[1] \in {NameMain, NameInit}

\* the owner of a receiver type, as the specification defines it: one pointer
\* indirection removed, then the type-argument list
OwnerOf(recv) ==
    LET u == IF recv.e = "Star" THEN recv.x ELSE recv
        v == IF u.e \in {"Index", "IndexList"} THEN u.x ELSE u
    IN  IF v.e = "Ident" THEN v.name ELSE NoName

DeclaredTypes(g) ==
    UNION {Range(g.items[i].names) : i \in {j \in 1..Len(g.items) :
                                              IsDecl(g, j) /\ g.items[j].tok = "type"}}

IsTypePiece(p) == IsDeclPiece(p) /\ ItemAt(p).tok = "type"

\* piece n is a method written behind type declaration piece p with nothing
\* but methods of p's types between them
InRunOf(p, n) ==
    /\ p < n
    /\ IsTypePiece(p)
    /\ \A q \in (p + 1)..n :
          /\ IsDeclPiece(q)
          /\ IsMethodItem(ItemAt(q))
          /\ OwnerOf(ItemAt(q).recv) \in Range(ItemAt(p).names)

InSomeRun(n) == \E p \in 1..Len(buf) : InRunOf(p, n)

\* piece n is in the free-function group: a function behind the second "\n"
\* that is not among the methods behind a type declaration
InFreeGroup(n) ==
    /\ IsDeclPiece(n)
    /\ ItemAt(n).tok = "func"
    /\ Len(NlPos) >= 2 /\ n > NlPos[2]
    /\ ~InSomeRun(n)

\* piece n is in the entry-point block: a function before the first "\n"
InEntryBlock(n) ==
    /\ IsDeclPiece(n)
    /\ ItemAt(n).tok = "func"
    /\ Len(NlPos) >= 1 /\ n < NlPos[1]

\* the SortKey order of the specification: visibility, then the lower-cased
\* name, then the name
Exported(n) == n # <<>> /\ n[1] \in 65..90
Fold(n) == [j \in 1..Len(n) |-> IF n[j] \in 65..90 THEN n[j] + 32 ELSE n[j]]
RECURSIVE Lex(_, _)
Lex(a, b) ==
    IF b = <<>> THEN FALSE
    ELSE IF a = <<>> THEN TRUE
    ELSE IF Head(a) # Head(b) THEN Head(a) < Head(b)
    ELSE Lex(Tail(a), Tail(b))
KeyLess(a, b) ==
    \/ Exported(a) /\ ~Exported(b)
    \/ /\ Exported(a) = Exported(b)
       /\ \/ Lex(Fold(a), Fold(b))
          \/ Fold(a) = Fold(b) /\ Lex(a, b)

----------------------------------------------------------------------------
(* Claims *)

\* C1: every top-level declaration of the parsed file is written to the
\* assembled buffer exactly once, from its doc comment when it has one.
C1_EveryDeclarationOnce ==
    Assembled =>
        \A i \in 1..Len(f.items) :
            IsDecl(f, i) =>
                /\ Cardinality(PosOf(i)) = 1
                /\ \A n \in PosOf(i) : buf[n].doc = DocOf(f, i)

\* C2: a function named main or init that has a receiver is written, never in
\* the entry-point block, behind its owner type's declaration when the file
\* declares that type, and in the free-function group when it does not.
C2_ReceiverEntryIsMethod ==
    Assembled =>
        \A i \in 1..Len(f.items) :
            (IsMethodItem(f.items[i]) /\ f.items[i].names[1] \in {NameMain, NameInit}) =>
                /\ PosOf(i) # {}
                /\ \A n \in PosOf(i) : ~InEntryBlock(n)
                /\ IF OwnerOf(f.items[i].recv) \in DeclaredTypes(f)
                   THEN \A n \in PosOf(i) : InSomeRun(n)
                   ELSE \A n \in PosOf(i) : InFreeGroup(n)

\* how often the comment group at position c of the file is written: with the
\* header, as a slice of its own, and as the Doc of a declaration
CommentCount(c) ==
    (IF c = PkgLineComment(f) THEN 1 ELSE 0)
    + Cardinality({n \in 1..Len(buf) : buf[n].p = "cmt" /\ buf[n].i = c})
    + Cardinality({n \in 1..Len(buf) : buf[n].p = "decl" /\ buf[n].doc = c})

\* the free-floating comment slices are one block of the buffer, behind the
\* imports and before every other declaration, in source order
FreeBlockInPlace ==
    \A n \in 1..Len(buf) :
        buf[n].p = "cmt" =>
            /\ \A m \in 1..(n - 1) :
                  \/ buf[m].p = "hdr"
                  \/ buf[m].p = "decl" /\ ItemAt(m).tok = "import"
                  \/ buf[m].p = "cmt" /\ buf[m].i < buf[n].i
            /\ \A m \in (n + 1)..Len(buf) :
                  ~(buf[m].p = "decl" /\ ItemAt(m).tok = "import")

\* C3: every comment group is written exactly once: one adjacent to a
\* declaration inside that declaration's slice, every free-floating one in
\* the block behind the imports, in source order.
C3_EveryCommentOnce ==
    Assembled =>
        /\ \A c \in 1..Len(f.items) :
              IsCmt(f, c) =>
                  /\ CommentCount(c) = 1
                  /\ f.items[c].gap = "adj" =>
                        \E n \in 1..Len(buf) :
                            buf[n].p = "decl" /\ buf[n].doc = c /\ buf[n].i = c + 1
        /\ FreeBlockInPlace

\* C4: a call on a file that a call in write mode produced ends without an
\* error of the engine, reports changed = false and leaves the file as it is.
C4_Idempotent ==
    [][(produced /\ pc # "idle" /\ pc' = "idle" /\ ret'.err # "io")
          => (ret'.err = "none" /\ ~ret'.changed /\ disk' = disk)]_vars

\* C5: a method whose receiver type resolves to a type T that the file
\* declares is written behind each declaration of T with only methods of that
\* declaration's types between them, in sorted order among T's methods,
\* wherever T stands in the source, and never in the free-function group.
C5_MethodReattachment ==
    Assembled =>
        \A i \in 1..Len(f.items) :
            LET T == OwnerOf(f.items[i].recv)
            IN  (IsMethodItem(f.items[i]) /\ T \in DeclaredTypes(f)) =>
                    /\ PosOf(i) # {}
                    /\ \A n \in PosOf(i) :
                          /\ ~InFreeGroup(n)
                          /\ \E p \in 1..Len(buf) :
                                InRunOf(p, n) /\ T \in Range(ItemAt(p).names)
                    /\ \A p \in 1..Len(buf) :
                          (IsTypePiece(p) /\ T \in Range(ItemAt(p).names)) =>
                              \E n \in PosOf(i) : InRunOf(p, n)
                    /\ \A p \in 1..Len(buf) : \A n \in PosOf(i) : \A m \in 1..Len(buf) :
                          (InRunOf(p, n) /\ InRunOf(p, m) /\ n < m
                           /\ OwnerOf(ItemAt(m).recv) = T) =>
                              ~KeyLess(LetterAt(m), LetterAt(n))

\* a method with receiver *A[int] that stands before the declaration of A has
\* been written behind it
C5_Witness ==
    /\ Assembled
    /\ \E i \in 1..Len(f.items) : \E j \in 1..Len(f.items) :
          /\ i < j
          /\ IsMethodItem(f.items[i])
          /\ f.items[i].recv = Star(Index(Ident(nA)))
          /\ f.items[j].tok = "type"
          /\ nA \in Range(f.items[j].names)
          /\ \E p \in PosOf(j) : \E n \in PosOf(i) : InRunOf(p, n)

\* the identifiers the order is checked on: one and two bytes of A, B, _, a, b
\* and the entry-point names
Alphabet == {65, 66, 95, 97, 98}
NameUniverse ==
    {<<x>> : x \in Alphabet} \cup {<<x, y>> : x \in Alphabet, y \in Alphabet}
    \cup {NameMain, NameInit}

\* Less is the SortKey order, a strict total order on distinct identifiers
LessIsSortKey ==
    /\ \A a \in NameUniverse : \A b \in NameUniverse :
          /\ Less(a, b) = KeyLess(a, b)
          /\ ~(Less(a, b) /\ Less(b, a))
          /\ a # b => Less(a, b) \/ Less(b, a)
          /\ (Exported(a) /\ ~Exported(b)) => Less(a, b)
    /\ \A a \in NameUniverse : \A b \in NameUniverse : \A c \in NameUniverse :
          (Less(a, b) /\ Less(b, c)) => Less(a, c)

\* pieces n and m are units of one sorted group
SameGroup(n, m) ==
    /\ IsDeclPiece(n) /\ IsDeclPiece(m)
    /\ \/ ItemAt(n).tok = "const" /\ ItemAt(m).tok = "const"
       \/ ItemAt(n).tok = "var" /\ ItemAt(m).tok = "var"
       \/ ItemAt(n).tok = "type" /\ ItemAt(m).tok = "type"
       \/ InFreeGroup(n) /\ InFreeGroup(m)
       \/ /\ \E p \in 1..Len(buf) : InRunOf(p, n) /\ InRunOf(p, m)
          /\ OwnerOf(ItemAt(n).recv) = OwnerOf(ItemAt(m).recv)

C7_EntryPoints ==
    Assembled =>
        \A i \in 1..Len(f.items) :
            IsEntryItem(f.items[i]) =>
                /\ Cardinality(PosOf(i)) = 1
                /\ \A n \in PosOf(i) :
                      /\ InEntryBlock(n)
                      /\ \A m \in 1..Len(buf) :
                            /\ (buf[m].p = "cmt" \/ buf[m].p = "hdr") => m < n
                            /\ (IsDeclPiece(m) /\ ItemAt(m).tok = "import") => m < n
                            /\ (IsDeclPiece(m) /\ IsEntryItem(ItemAt(m)) /\ buf[m].i < i) => m < n
                            /\ (IsDeclPiece(m) /\ ItemAt(m).tok # "import"
                                /\ ~IsEntryItem(ItemAt(m))) => n < m

\* init and main, in this order behind a function in the source, were written
\* before it, init first
C7_Witness ==
    /\ Assembled
    /\ \E h \in 1..Len(f.items) : \E i \in 1..Len(f.items) : \E j \in 1..Len(f.items) :
          /\ h < i /\ i < j
          /\ f.items[h].tok = "func" /\ ~IsEntryItem(f.items[h]) /\ f.items[h].recv.e = "nil"
          /\ IsEntryItem(f.items[i]) /\ f.items[i].names[1] = NameInit
          /\ IsEntryItem(f.items[j]) /\ f.items[j].names[1] = NameMain
          /\ \E b \in PosOf(i) : \E c \in PosOf(j) : \E d \in PosOf(h) :
                b < c /\ c < d

\* C9: the file on disk changes only in the os.WriteFile of a call in write
\* mode whose parse and format.Source succeeded, and then to what format.Source
\* returned (or, when the write fails, to a truncated file); a call that ends
\* with a parse or formatter error returns changed = false.
C9_WriteOnlyOnSuccess ==
    [][/\ disk' # disk =>
             /\ write /\ pc = "WriteFile" /\ f.ok /\ f = disk
             /\ \/ disk' = out /\ out.ok /\ ret'.err = "none"
                \/ disk' = BadFile /\ ret'.err = "io"
       /\ (pc # "idle" /\ pc' = "idle" /\ ret'.err \in {"parse", "format"}) =>
             ~ret'.changed /\ disk' = disk
       /\ (pc # "idle" /\ pc' = "idle" /\ ~write) => disk' = disk]_vars

\* a call in write mode ended with a formatter error and the file is the
\* parseable file it was
C9_Witness ==
    /\ pc = "idle"
    /\ write
    /\ ret.err = "format"
    /\ ~ret.changed
    /\ disk.ok
    /\ calls = 1

\* the files the claim names: those ending in .go, outside .git and vendor,
\* directly in the path unless recursive, no _test.go file unless includeTests
WantedFile(e, includeTests) ==
    /\ ~e.dir
    /\ e.name \in {"go", "test"}
    /\ e.name = "test" => includeTests
ExpectedFiles(tree, includeTests, recursive) ==
    {<<i>> : i \in {x \in 1..Len(tree) : WantedFile(tree[x], includeTests)}}
    \cup UNION {{<<i, j>> : j \in {y \in 1..Len(tree[i].kids) :
                                      WantedFile(tree[i].kids[y], includeTests)}} :
                i \in {x \in 1..Len(tree) :
                          /\ tree[x].dir
                          /\ tree[x].name \notin {".git", "vendor"}
                          /\ recursive}}

\* C8: the list getDirGoFiles returns to sortFile is exactly the files the
\* settings name, for every combination of includeTests and recursive.
C8_EnumerationHonoursSettings ==
    pc # "sortFile" =>
        /\ Range(files) = ExpectedFiles(fs, cfg.includeTests, cfg.recursive)
        /\ Len(files) = Cardinality(Range(files))

\* C10: sortFile hands the files to sortActionByFilename one at a time in the
\* order of the list; only the last one handed over can have failed, and then
\* sortFile has returned the error naming it; no file behind it was handed
\* over or written, and in write mode every file before it was rewritten.
C10_FailFast ==
    /\ Len(done) = idx
    /\ idx <= Len(files)
    /\ \A j \in 1..idx : done[j].file = files[j]
    /\ \A j \in 1..(idx - 1) : done[j].err = "none"
    /\ (batchErr # <<>>) = (idx >= 1 /\ done[idx].err # "none")
    /\ batchErr # <<>> => pc = "returned" /\ batchErr = files[idx]
    /\ (pc = "returned" /\ batchErr = <<>>) => idx = Len(files)
    /\ \A j \in (idx + 1)..Len(files) : ~FileAt(fs, files[j]).written
    /\ \A j \in 1..idx :
          FileAt(fs, files[j]).written = (cfg.write /\ done[j].err = "none")

\* in write mode sortFile has returned the error of the second file: the first
\* is rewritten and a third was never handed over
C10_Witness ==
    /\ pc = "returned"
    /\ cfg.write
    /\ batchErr # <<>>
    /\ idx = 2
    /\ Len(files) > 2
    /\ FileAt(fs, files[1]).written
    /\ FileAt(fs, files[1]).content # UnsortedFile

====
